---- MODULE Spec2Model ----
(***************************************************************************)
(* Moving Least Squares shape functions (src/MLS.ipynb, last code cell).   *)
(*                                                                         *)
(* The cell is a straight-line script: it recreates the output directory,  *)
(* loads the point cloud, queries the nearest neighbours of every point,   *)
(* runs one loop iteration per point, flattens the accumulated rows,       *)
(* assembles five sparse matrices and saves them.  The model cuts it at    *)
(* those places.                                                           *)
(*                                                                         *)
(* Numbers.  The script computes in floating point; the model computes     *)
(* in exact rationals <<numerator, denominator>> (denominator > 0, lowest  *)
(* terms).  Two places of the script leave the rationals:                  *)
(*   - Euclidean distances are square roots.  The script only ever uses    *)
(*     (distance / a0) ** 2, a0 ** 2 and a0 ** 4, so `distances` and `a0`  *)
(*     hold the SQUARES of the script's values (an order-preserving        *)
(*     encoding: sorting by distance is sorting by squared distance).      *)
(*   - np.exp is transcendental.  ExpNeg below stands for t |-> exp(-t):   *)
(*     exact at 0, positive and non-increasing.                             *)
(* Point and neighbour indices are 0-based as in the script; positions in  *)
(* TLA+ sequences are 1-based, so point i is distnod[i + 1].               *)
(***************************************************************************)
EXTENDS Integers, Sequences, FiniteSets, TLC

\* n_neighbors (30 in the script), reduced so that TLC can enumerate runs.
K == 6

\* md = 6: number of terms of the quadratic basis.
md == 6

----------------------------------------------------------------------------
(* Exact rational arithmetic: the script's float +, -, *, /.               *)

Abs(x) == IF x < 0 THEN -x ELSE x

RECURSIVE GCD(_, _)
\* Euclid, two steps at a time.
GCD(a, b) ==
    IF b = 0 THEN a
    ELSE CHOOSE g \in {IF r = 0 THEN b ELSE GCD(r, b % r) : r \in {a % b}} : TRUE

QNorm(n, d) ==
    IF n = 0 THEN <<0, 1>>
    ELSE LET g == GCD(Abs(n), Abs(d))
             s == IF d < 0 THEN -1 ELSE 1
         IN  <<s * (n \div g), s * (d \div g)>>

Zero == <<0, 1>>
One == <<1, 1>>
QInt(n) == <<n, 1>>

QNeg(a) == <<-a[1], a[2]>>

QAdd(a, b) ==
    IF a[1] = 0 THEN b
    ELSE IF b[1] = 0 THEN a
    ELSE LET g == GCD(a[2], b[2])
         IN  QNorm(a[1] * (b[2] \div g) + b[1] * (a[2] \div g), (a[2] \div g) * b[2])

QSub(a, b) == QAdd(a, QNeg(b))

QMul(a, b) ==
    IF a[1] = 0 \/ b[1] = 0 THEN Zero
    ELSE LET g1 == GCD(Abs(a[1]), b[2])
             g2 == GCD(Abs(b[1]), a[2])
         IN  <<(a[1] \div g1) * (b[1] \div g2), (a[2] \div g2) * (b[2] \div g1)>>

\* a / b for b # 0 (the script's divisions by zero are decided before the call).
QDiv(a, b) == QMul(a, IF b[1] < 0 THEN <<-b[2], -b[1]>> ELSE <<b[2], b[1]>>)

----------------------------------------------------------------------------
(* Dense arrays: a vector is a sequence of rationals, a matrix a sequence  *)
(* of rows.  An operator that reads an argument more than once binds it    *)
(* first (x \in {X}), so that TLC evaluates the argument once.             *)

RECURSIVE SumTo(_, _)
SumTo(v, n) == IF n = 0 THEN Zero ELSE QAdd(SumTo(v, n - 1), v[n])

QSum(v) == CHOOSE t \in {SumTo(x, Len(x)) : x \in {v}} : TRUE

RECURSIVE DotTo(_, _, _, _)
\* sum over k in 1..n of X[r][k] * Y[k][c]
DotTo(row, Y, c, n) ==
    IF n = 0 THEN Zero ELSE QAdd(DotTo(row, Y, c, n - 1), QMul(row[n], Y[n][c]))

\* X.dot(Y)
MatMul(X, Y) ==
    CHOOSE P \in {[r \in 1..Len(x) |-> [c \in 1..Len(y[1]) |-> DotTo(x[r], y, c, Len(y))]] :
                     x \in {X}, y \in {Y}} : TRUE

\* X.T / X.transpose()
Transpose(X) ==
    CHOOSE T \in {[c \in 1..Len(x[1]) |-> [r \in 1..Len(x) |-> x[r][c]]] : x \in {X}} : TRUE

MatAdd(X, Y) ==
    CHOOSE S \in {[r \in 1..Len(x) |-> [c \in 1..Len(x[1]) |-> QAdd(x[r][c], y[r][c])]] :
                     x \in {X}, y \in {Y}} : TRUE

MatSub(X, Y) ==
    CHOOSE S \in {[r \in 1..Len(x) |-> [c \in 1..Len(x[1]) |-> QSub(x[r][c], y[r][c])]] :
                     x \in {X}, y \in {Y}} : TRUE

MatNeg(X) ==
    CHOOSE S \in {[r \in 1..Len(x) |-> [c \in 1..Len(x[1]) |-> QNeg(x[r][c])]] :
                     x \in {X}} : TRUE

Scale(q, X) ==
    CHOOSE S \in {[r \in 1..Len(x) |-> [c \in 1..Len(x[1]) |-> QMul(k, x[r][c])]] :
                     k \in {q}, x \in {X}} : TRUE

\* np.diag(v)
Diag(v) ==
    CHOOSE D \in {[r \in 1..Len(d) |-> [c \in 1..Len(d) |-> IF r = c THEN d[r] ELSE Zero]] :
                     d \in {v}} : TRUE

Identity(n) == [r \in 1..n |-> [c \in 1..n |-> IF r = c THEN One ELSE Zero]]

Trace(X) == CHOOSE t \in {SumTo([r \in 1..Len(x) |-> x[r][r]], Len(x)) : x \in {X}} : TRUE

\* np.ravel(M).tolist(): the entries of M row after row.
Ravel(M) ==
    CHOOSE v \in {[t \in 1..(Len(m) * Len(m[1])) |->
                     m[((t - 1) \div Len(m[1])) + 1][((t - 1) % Len(m[1])) + 1]] :
                     m \in {M}} : TRUE

----------------------------------------------------------------------------
(* numpy.linalg.pinv and numpy.linalg.cond of the moment matrix.           *)
(*                                                                         *)
(* pinv returns the Moore-Penrose pseudo-inverse (from the SVD, dropping   *)
(* singular values that are zero up to rounding).  For a symmetric matrix  *)
(* of rank r with characteristic polynomial                                *)
(*     x^(n-r) * (x^r + c_1 x^(r-1) + ... + c_r),   c_r # 0,               *)
(* and M_1 = I, M_(k+1) = A M_k + c_k I (Faddeev-LeVerrier), it is         *)
(*     (-M_r / c_r) (I - M_(r+1) / c_r),                                   *)
(* which is -M_n / c_n = A^-1 when r = n.  PinvIsMoorePenrose states the   *)
(* four Penrose conditions for it.                                         *)

\* [M |-> M_k, AM |-> A M_k, c |-> c_k] with c_k = -trace(A M_k) / k
CharEntry(k, M, AM) == [M |-> M, AM |-> AM, c |-> QDiv(QNeg(Trace(AM)), QInt(k))]

\* The entry of step k from the entries before it (M_1 = I, M_k = A M_(k-1) + c_(k-1) I).
CharStep(A, prev, k) ==
    CHOOSE e \in {CharEntry(k, am[1], am[2]) :
                    am \in {<<m, MatMul(A, m)>> :
                              m \in {IF k = 1 THEN Identity(Len(A))
                                     ELSE MatAdd(prev[k - 1].AM,
                                                 Scale(prev[k - 1].c, Identity(Len(A))))}}} : TRUE

RECURSIVE CharSeq(_, _)
\* <<[M |-> M_j, AM |-> A M_j, c |-> c_j] : j = 1..k>>, A a matrix value
CharSeq(A, k) ==
    IF k = 0 THEN <<>>
    ELSE CHOOSE cs \in {Append(prev, CharStep(A, prev, k)) : prev \in {CharSeq(A, k - 1)}} : TRUE

RankOf(cs) ==
    LET nz == {k \in 1..Len(cs) : cs[k].c # Zero}
    IN  IF nz = {} THEN 0 ELSE CHOOSE k \in nz : \A j \in nz : j <= k

\* numpy.linalg.matrix_rank of a symmetric matrix
Rank(A) == CHOOSE r \in {RankOf(CharSeq(a, Len(a))) : a \in {A}} : TRUE

PinvOf(n, r, cs) ==
    IF r = 0 THEN [j \in 1..n |-> [c \in 1..n |-> Zero]]
    ELSE IF r = n THEN Scale(QDiv(QInt(-1), cs[r].c), cs[r].M)
    ELSE MatMul(Scale(QDiv(QInt(-1), cs[r].c), cs[r].M),
                MatSub(Identity(n), Scale(QDiv(One, cs[r].c), cs[r + 1].M)))

\* pinv(A)
pinv(A) ==
    CHOOSE IA \in {PinvOf(Len(cs), RankOf(cs), cs) :
                     cs \in {CHOOSE c \in {CharSeq(a, Len(a)) : a \in {A}} : TRUE}} : TRUE

\* cond(A): sigma_max / sigma_min is finite exactly when A is nonsingular; the
\* model keeps that much of the value.
cond(A) == CHOOSE c \in {IF Rank(a) = Len(a) THEN "finite" ELSE "inf" : a \in {A}} : TRUE

----------------------------------------------------------------------------
(* The point clouds the runs are enumerated over (the content of geom.dat, *)
(* one <<x, y>> per record) and the tie order of the neighbour query.      *)

\* 3 x 3 unit grid, x fastest (np.meshgrid / np.reshape order of the notebook).
Grid ==
    << <<0, 0>>, <<1, 0>>, <<2, 0>>,
       <<0, 1>>, <<1, 1>>, <<2, 1>>,
       <<0, 2>>, <<1, 2>>, <<2, 2>> >>

\* A centre, its four axis neighbours and two diagonal ones.
Star == << <<0, 0>>, <<1, 0>>, <<-1, 0>>, <<0, 1>>, <<0, -1>>, <<1, 1>>, <<-1, -1>> >>

\* Four positions, each held by two points.
Twins ==
    << <<0, 0>>, <<0, 0>>, <<1, 0>>, <<1, 0>>,
       <<0, 1>>, <<0, 1>>, <<1, 1>>, <<1, 1>> >>

\* One point next to K + 1 points that share one position.
Pile == <<<<1, 0>>>> \o [j \in 1..(K + 1) |-> <<0, 0>>]

\* Fewer points than neighbours asked for.
Few == SubSeq(Grid, 1, K - 1)

Clouds == {Grid, Star, Twins, Pile, Few}

\* Equal distances: the order among them is the query structure's; the model
\* runs it both ways.
TieOrders == {"asc", "desc"}

----------------------------------------------------------------------------
VARIABLES
    pc,             \* where the script is
    error,          \* the exception that ended it ("" for none)
    geom,           \* geom.dat
    tie,            \* tie order of the ball tree
    mls,            \* the directory MLS: whether it exists, and its files
    distnod,        \* the loaded point cloud
    distances,      \* kneighbors: squared distance of neighbour j of point i
    indices,        \* kneighbors: index of neighbour j of point i
    a0,             \* squared support radius of every point
    i,              \* the loop variable: points processed so far
    loc,            \* the arrays of the last loop iteration
    cond_number,
    i_list, sdi_list,
    sf_list, sfx_list, sfxx_list, sfy_list, sfyy_list,
    sf, sfx, sfxx, sfy, sfyy,   \* the assembled csc matrices
    run,            \* 1, or 2 when the cell is being executed again
    prev            \* what the first execution left in the lists and matrices

lists == <<cond_number, i_list, sdi_list, sf_list, sfx_list, sfxx_list, sfy_list, sfyy_list>>
matrices == <<sf, sfx, sfxx, sfy, sfyy>>
knn == <<distances, indices, a0>>
vars == <<pc, error, geom, tie, mls, distnod, knn, i, loc, lists, matrices, run, prev>>

N == Len(distnod)

\* A name not bound yet.
Unset == <<>>

NoLocals ==
    [finite |-> FALSE, nsd |-> <<>>, p_ |-> <<>>,
     Dn |-> <<>>, Dx |-> <<>>, Dxx |-> <<>>, Dy |-> <<>>, Dyy |-> <<>>,
     A |-> <<>>, Ax |-> <<>>, Axx |-> <<>>, Ay |-> <<>>, Ayy |-> <<>>,
     B |-> <<>>, Bx |-> <<>>, Bxx |-> <<>>, By |-> <<>>, Byy |-> <<>>,
     IA |-> <<>>, IAx |-> <<>>, IAxx |-> <<>>, IAy |-> <<>>, IAyy |-> <<>>]

\* A csc matrix: its shape and its stored entries, <<row, column>> |-> value.
NoMatrix == [shape |-> <<0, 0>>, data |-> <<>>]

\* The result file an earlier run on a one-point cloud would have left.
OldMatrix == [shape |-> <<1, 1>>, data |-> <<>>]
OldFile ==
    [name |-> "shape_functions.npz",
     content |-> [sf |-> OldMatrix, sfx |-> OldMatrix, sfy |-> OldMatrix,
                  sfxx |-> OldMatrix, sfyy |-> OldMatrix]]

\* What an execution of the cell leaves behind: the lists and the matrices.
Outputs ==
    [cond_number |-> cond_number, i_list |-> i_list, sdi_list |-> sdi_list,
     sf_list |-> sf_list, sfx_list |-> sfx_list, sfxx_list |-> sfxx_list,
     sfy_list |-> sfy_list, sfyy_list |-> sfyy_list,
     sf |-> sf, sfx |-> sfx, sfxx |-> sfxx, sfy |-> sfy, sfyy |-> sfyy]

NoOutputs ==
    [cond_number |-> Unset, i_list |-> Unset, sdi_list |-> Unset,
     sf_list |-> Unset, sfx_list |-> Unset, sfxx_list |-> Unset,
     sfy_list |-> Unset, sfyy_list |-> Unset,
     sf |-> NoMatrix, sfx |-> NoMatrix, sfxx |-> NoMatrix, sfy |-> NoMatrix,
     sfyy |-> NoMatrix]

Init ==
    /\ pc = "start"
    /\ error = ""
    /\ geom \in Clouds
    /\ tie \in TieOrders
    /\ mls \in {[exists |-> FALSE, files |-> {}],
               [exists |-> TRUE, files |-> {}],
               [exists |-> TRUE, files |-> {OldFile}]}
    /\ distnod = Unset
    /\ distances = Unset /\ indices = Unset /\ a0 = Unset
    /\ i = 0
    /\ loc = NoLocals
    /\ cond_number = Unset
    /\ i_list = Unset /\ sdi_list = Unset
    /\ sf_list = Unset /\ sfx_list = Unset /\ sfxx_list = Unset
    /\ sfy_list = Unset /\ sfyy_list = Unset
    /\ sf = NoMatrix /\ sfx = NoMatrix /\ sfxx = NoMatrix
    /\ sfy = NoMatrix /\ sfyy = NoMatrix
    /\ run = 1
    /\ prev = NoOutputs

\* The exception caught and dropped: the script runs on to its end.
RaiseSwallowed(kind) ==
    /\ pc' = "done"
    /\ error' = kind

\* An uncaught exception ends the script where it is raised.
Raise(kind) ==
    /\ pc' = "error"
    /\ error' = kind

----------------------------------------------------------------------------
(* Lines 209-240: output directory, accumulators, selector vectors.        *)

\* The directory made if missing and otherwise kept: no shutil.rmtree.
RecreateDirKeeps(dir) == [exists |-> TRUE, files |-> dir.files]

\* shutil.rmtree(dirpath) if it exists, then os.makedirs('MLS')
RecreateDir(dir) == [exists |-> TRUE, files |-> {}]

w == <<<<One>>, <<Zero>>, <<Zero>>, <<Zero>>, <<Zero>>, <<Zero>>>>
pdx == <<<<Zero>>, <<One>>, <<Zero>>, <<Zero>>, <<Zero>>, <<Zero>>>>
pdxx == <<<<Zero>>, <<Zero>>, <<Zero>>, <<QInt(2)>>, <<Zero>>, <<Zero>>>>
pdy == <<<<Zero>>, <<Zero>>, <<One>>, <<Zero>>, <<Zero>>, <<Zero>>>>
pdyy == <<<<Zero>>, <<Zero>>, <<Zero>>, <<Zero>>, <<Zero>>, <<QInt(2)>>>>

w_ == Transpose(w)
pdx_ == Transpose(pdx)
pdxx_ == Transpose(pdxx)
pdy_ == Transpose(pdy)
pdyy_ == Transpose(pdyy)

\* The cell without cond_number = list(): the list keeps what it held.
SetupKeepsCond ==
    /\ pc = "start"
    /\ mls' = RecreateDir(mls)
    /\ i_list' = <<>> /\ sdi_list' = <<>>
    /\ sf_list' = <<>> /\ sfx_list' = <<>> /\ sfxx_list' = <<>>
    /\ sfy_list' = <<>> /\ sfyy_list' = <<>>
    /\ pc' = "load"
    /\ UNCHANGED <<error, geom, tie, run, prev, distnod, knn, i, loc, matrices, cond_number>>

Setup ==
    /\ pc = "start"
    /\ mls' = RecreateDir(mls)
    /\ cond_number' = <<>>
    /\ i_list' = <<>> /\ sdi_list' = <<>>
    /\ sf_list' = <<>> /\ sfx_list' = <<>> /\ sfxx_list' = <<>>
    /\ sfy_list' = <<>> /\ sfyy_list' = <<>>
    /\ pc' = "load"
    /\ UNCHANGED <<error, geom, tie, run, prev, distnod, knn, i, loc, matrices>>

\* Line 243: distnod = np.genfromtxt('geom.dat')
LoadGeom ==
    /\ pc = "load"
    /\ distnod' = geom
    /\ pc' = "knn"
    /\ UNCHANGED <<error, geom, tie, run, prev, mls, knn, i, loc, lists, matrices>>

----------------------------------------------------------------------------
(* Lines 246-251: NearestNeighbors(n_neighbors=30).fit(distnod),           *)
(* kneighbors(distnod), a1 = distances[:, 29], a0 = 0.3 * a1.              *)

\* Squared Euclidean distance of two points.
Dist2(p, q) == (p[1] - q[1]) * (p[1] - q[1]) + (p[2] - q[2]) * (p[2] - q[2])

\* Point a (an index) comes before point b in the neighbours of position q.
Before(X, q, a, b, order) ==
    \/ Dist2(q, X[a + 1]) < Dist2(q, X[b + 1])
    \/ /\ Dist2(q, X[a + 1]) = Dist2(q, X[b + 1])
       /\ IF order = "asc" THEN a < b ELSE a > b

\* The nearest point of S given n times: a chosen point is not set aside.
NearestRepeats(X, q, S, n, order) ==
    [j \in 1..n |-> CHOOSE c \in S : \A b \in S \ {c} : Before(X, q, c, b, order)]

RECURSIVE Nearest(_, _, _, _, _)
\* The first n of the points S in the order Before.
Nearest(X, q, S, n, order) ==
    IF n = 0 \/ S = {} THEN <<>>
    ELSE LET a == CHOOSE c \in S : \A b \in S \ {c} : Before(X, q, c, b, order)
         IN  <<a>> \o Nearest(X, q, S \ {a}, n - 1, order)

\* kneighbors() without an argument: the query point is not its own neighbour.
kneighborsNoSelf(X, order) ==
    LET ind == [m \in 1..Len(X) |->
                   Nearest(X, X[m], (0..(Len(X) - 1)) \ {m - 1}, K, order)]
    IN  [indices |-> ind,
         distances |-> [m \in 1..Len(X) |-> [j \in 1..K |-> Dist2(X[m], X[ind[m][j] + 1])]]]

\* kneighbors(X): every fitted point is a candidate, the query point too.
kneighbors(X, order) ==
    LET ind == [m \in 1..Len(X) |-> Nearest(X, X[m], 0..(Len(X) - 1), K, order)]
    IN  [indices |-> ind,
         distances |-> [m \in 1..Len(X) |-> [j \in 1..K |-> Dist2(X[m], X[ind[m][j] + 1])]]]

\* 0.3 ** 2: the scale factor of a0 = 0.3 * a1, squared like a0.
ScaleSq == <<9, 100>>

\* a1 taken from the first column of distances instead of the last.
SupportRadiusFirst(dist) == [m \in 1..Len(dist) |-> QMul(ScaleSq, QInt(dist[m][1]))]

\* Lines 250-251: a1 = distances[:, 29], a0 = 0.3 * a1 (squared here).
SupportRadius(dist) == [m \in 1..Len(dist) |-> QMul(ScaleSq, QInt(dist[m][K]))]

Kneighbors ==
    /\ pc = "knn"
    /\ N >= K
    /\ LET nn == kneighbors(distnod, tie)
       IN  /\ distances' = nn.distances
           /\ indices' = nn.indices
           /\ a0' = SupportRadius(nn.distances)
    /\ pc' = "loop"
    /\ UNCHANGED <<error, geom, tie, run, prev, mls, distnod, i, loc, lists, matrices>>

\* "Expected n_neighbors <= n_samples_fit": kneighbors raises ValueError.
KneighborsFail ==
    /\ pc = "knn"
    /\ N < K
    /\ Raise("ValueError")
    /\ UNCHANGED <<geom, tie, run, prev, mls, distnod, knn, i, loc, lists, matrices>>

----------------------------------------------------------------------------
(* Lines 262-319: one loop iteration, for a point with a0 # 0.             *)

RECURSIVE Pow2(_)
Pow2(n) == IF n = 0 THEN 1 ELSE 2 * Pow2(n - 1)

\* A decaying factor that is already 1/2 at t = 0.
ExpNegHalf(t) == <<1, Pow2(1 + (t[1] + 6 * t[2] - 1) \div (6 * t[2]))>>

\* np.exp(-t) for t >= 0: 1 at t = 0, then halving with every 6 units of t.
ExpNeg(t) == <<1, Pow2((t[1] + 6 * t[2] - 1) \div (6 * t[2]))>>

\* Line 262: nsd = distnod[indices[i, :]]
Neighbours(X, ind) == [j \in 1..Len(ind) |-> X[ind[j] + 1]]

\* The basis in the coordinates of geom.dat, not shifted to nsd[0].
BasisGlobal(nsd) ==
    LET cols == 1..Len(nsd)
    IN  << [j \in cols |-> One],
           [j \in cols |-> QInt(nsd[j][1])],
           [j \in cols |-> QInt(nsd[j][2])],
           [j \in cols |-> QInt(nsd[j][1] * nsd[j][1])],
           [j \in cols |-> QInt(nsd[j][1] * nsd[j][2])],
           [j \in cols |-> QInt(nsd[j][2] * nsd[j][2])] >>

\* Lines 265-272: the basis matrix p_, one row per basis term, one column per
\* neighbour, relative to the first neighbour nsd[0].
Basis(nsd) ==
    LET dx(j) == nsd[j][1] - nsd[1][1]
        dy(j) == nsd[j][2] - nsd[1][2]
        cols == 1..Len(nsd)
    IN  << [j \in cols |-> One],
           [j \in cols |-> QInt(dx(j))],
           [j \in cols |-> QInt(dy(j))],
           [j \in cols |-> QInt(dx(j) * dx(j))],
           [j \in cols |-> QInt(dx(j) * dy(j))],
           [j \in cols |-> QInt(dy(j) * dy(j))] >>

\* The distances not divided by a0: np.exp(-(distances[i, :]) ** 2).
KernelDnUnscaled(dist, a0i) == [j \in 1..Len(dist) |-> ExpNeg(QInt(dist[j]))]

\* Line 275: Dn = np.exp(-((distances[i, :]) / a0[i]) ** 2)
KernelDn(dist, a0i) == [j \in 1..Len(dist) |-> ExpNeg(QDiv(QInt(dist[j]), a0i))]

\* Lines 278, 280: (-2 / a0 ** 2) * (nsd[0, c] - nsd[:, c]) * Dn
KernelD1(nsd, c, a0i, Dn) ==
    [j \in 1..Len(nsd) |->
        QMul(QMul(QDiv(QInt(-2), a0i), QInt(nsd[1][c] - nsd[j][c])), Dn[j])]

\* The second derivative scaled by a0**2 where the code has a0**4.
KernelD2Squared(nsd, c, a0i, Dn) ==
    [j \in 1..Len(nsd) |->
        QMul(QMul(QDiv(QInt(-2), a0i),
                  QSub(a0i, QInt(2 * (nsd[1][c] - nsd[j][c]) * (nsd[1][c] - nsd[j][c])))),
             Dn[j])]

\* Lines 279, 281: (-2 / a0 ** 4) * (a0 ** 2 - 2 * (nsd[0, c] - nsd[:, c]) ** 2) * Dn
KernelD2(nsd, c, a0i, Dn) ==
    [j \in 1..Len(nsd) |->
        QMul(QMul(QDiv(QInt(-2), QMul(a0i, a0i)),
                  QSub(a0i, QInt(2 * (nsd[1][c] - nsd[j][c]) * (nsd[1][c] - nsd[j][c])))),
             Dn[j])]

\* The moment matrix without the transpose: p_.dot(np.diag(D).dot(p_)).
MomentNoTranspose(p, D) == MatMul(p, MatMul(Diag(D), p))

\* Lines 284-288: p_.dot(np.diag(D).dot(p_.T))
Moment(p, D) == MatMul(p, MatMul(Diag(D), Transpose(p)))

\* B without the weights: p_.T alone.
WeightedBasisNoWeights(p, D) == Transpose(p)

\* Lines 291-295: np.diag(D).dot(p_.T)
WeightedBasis(p, D) == MatMul(Diag(D), Transpose(p))

\* The derivative of the inverse without its minus sign.
InvD1NoMinus(IA, Ad) == MatMul(MatMul(IA, Ad), IA)

\* Lines 301, 303: -IA.dot(Ad).dot(IA)
InvD1(IA, Ad) == MatNeg(MatMul(MatMul(IA, Ad), IA))

\* The second derivative of the inverse without its last term.
InvD2TwoTerms(IA, IAd, Ad, Add) ==
    MatSub(MatNeg(MatMul(MatMul(IAd, Ad), IA)), MatMul(MatMul(IA, Add), IA))

\* Lines 302, 304: -IAd.dot(Ad).dot(IA) - IA.dot(Add).dot(IA) - IA.dot(Ad).dot(IAd)
InvD2(IA, IAd, Ad, Add) ==
    MatSub(MatSub(MatNeg(MatMul(MatMul(IAd, Ad), IA)), MatMul(MatMul(IA, Add), IA)),
           MatMul(MatMul(IA, Ad), IAd))

\* Lines 262-281: the neighbour coordinates, the basis and the kernel arrays.
KernelArrays(nsd, a0i, Dn) ==
    [nsd |-> nsd, p_ |-> Basis(nsd),
     Dn |-> Dn,
     Dx |-> KernelD1(nsd, 1, a0i, Dn), Dxx |-> KernelD2(nsd, 1, a0i, Dn),
     Dy |-> KernelD1(nsd, 2, a0i, Dn), Dyy |-> KernelD2(nsd, 2, a0i, Dn)]

\* Lines 284-295: the moment matrices and the weighted basis matrices.
MomentArrays(k) ==
    [A |-> Moment(k.p_, k.Dn),
     Ax |-> Moment(k.p_, k.Dx), Axx |-> Moment(k.p_, k.Dxx),
     Ay |-> Moment(k.p_, k.Dy), Ayy |-> Moment(k.p_, k.Dyy),
     B |-> WeightedBasis(k.p_, k.Dn),
     Bx |-> WeightedBasis(k.p_, k.Dx), Bxx |-> WeightedBasis(k.p_, k.Dxx),
     By |-> WeightedBasis(k.p_, k.Dy), Byy |-> WeightedBasis(k.p_, k.Dyy)]

\* Lines 298-304: the pseudo-inverse and its derivatives.
InverseArrays(m) ==
    CHOOSE v \in {[IA |-> d[1],
                   IAx |-> d[2], IAxx |-> InvD2(d[1], d[2], m.Ax, m.Axx),
                   IAy |-> d[3], IAyy |-> InvD2(d[1], d[3], m.Ay, m.Ayy)] :
                    d \in {<<ia, InvD1(ia, m.Ax), InvD1(ia, m.Ay)>> :
                             ia \in {pinv(m.A)}}} : TRUE

\* The arrays of one iteration, from the neighbour indices and squared
\* distances of the point and its squared support radius.
PointLocals(X, ind, dist, a0i) ==
    CHOOSE l \in {[finite |-> TRUE] @@ km[1] @@ km[2] @@ InverseArrays(km[2]) :
                    km \in {<<k, MomentArrays(k)>> :
                              k \in {KernelArrays(n, a0i, d) :
                                       n \in {Neighbours(X, ind)},
                                       d \in {KernelDn(dist, a0i)}}}} : TRUE

\* Line 310: w_.dot(IA).dot(B.T)
ShapeRow(l) == Ravel(Transpose(MatMul(MatMul(w_, l.IA), Transpose(l.B))))

\* Lines 311, 312: (pd_.dot(IA) + w_.dot(IAd)).dot(B.T) + w_.dot(IA).dot(Bd.T)
ShapeRowD1(pd, IA, IAd, B, Bd) ==
    Ravel(Transpose(MatAdd(
        MatMul(MatAdd(MatMul(pd, IA), MatMul(w_, IAd)), Transpose(B)),
        MatMul(MatMul(w_, IA), Transpose(Bd)))))

\* The middle factor with w_.dot(IAd) once: (w_.dot(IAd) + 2*pd_.dot(IA)).dot(Bd.T)
ShapeRowD2Once(pdd, pd, IA, IAd, IAdd, B, Bd, Bdd) ==
    Ravel(Transpose(MatAdd(MatAdd(
        MatMul(MatAdd(MatAdd(MatMul(pdd, IA), Scale(QInt(2), MatMul(pd, IAd))),
                      MatMul(w_, IAdd)),
               Transpose(B)),
        MatMul(MatAdd(MatMul(w_, IAd), Scale(QInt(2), MatMul(pd, IA))),
               Transpose(Bd))),
        MatMul(MatMul(w_, IA), Transpose(Bdd)))))

\* Lines 313-319: (pdd_.dot(IA) + 2*pd_.dot(IAd) + w_.dot(IAdd)).dot(B.T)
\*                + (w_.dot(IAd) + 2*pd_.dot(IA) + w_.dot(IAd)).dot(Bd.T)
\*                + w_.dot(IA).dot(Bdd.T)
ShapeRowD2(pdd, pd, IA, IAd, IAdd, B, Bd, Bdd) ==
    Ravel(Transpose(MatAdd(MatAdd(
        MatMul(MatAdd(MatAdd(MatMul(pdd, IA), Scale(QInt(2), MatMul(pd, IAd))),
                      MatMul(w_, IAdd)),
               Transpose(B)),
        MatMul(MatAdd(MatAdd(MatMul(w_, IAd), Scale(QInt(2), MatMul(pd, IA))),
                      MatMul(w_, IAd)),
               Transpose(Bd))),
        MatMul(MatMul(w_, IA), Transpose(Bdd)))))

\* The bare index appended: i_list.append([i]).
RowIndexScalar(row, n) == <<row>>

\* Line 322: i * np.ones((len(nsd)))
RowIndex(row, n) == [j \in 1..n |-> row]

PointStep ==
    /\ pc = "loop"
    /\ i < N
    /\ a0[i + 1] # Zero
    /\ loc' = PointLocals(distnod, indices[i + 1], distances[i + 1], a0[i + 1])
    /\ cond_number' = Append(cond_number, cond(loc'.A))
    /\ sf_list' = Append(sf_list, ShapeRow(loc'))
    /\ sfx_list' = Append(sfx_list,
                          ShapeRowD1(pdx_, loc'.IA, loc'.IAx, loc'.B, loc'.Bx))
    /\ sfy_list' = Append(sfy_list,
                          ShapeRowD1(pdy_, loc'.IA, loc'.IAy, loc'.B, loc'.By))
    /\ sfxx_list' = Append(sfxx_list,
                           ShapeRowD2(pdxx_, pdx_, loc'.IA, loc'.IAx, loc'.IAxx,
                                      loc'.B, loc'.Bx, loc'.Bxx))
    /\ sfyy_list' = Append(sfyy_list,
                           ShapeRowD2(pdyy_, pdy_, loc'.IA, loc'.IAy, loc'.IAyy,
                                      loc'.B, loc'.By, loc'.Byy))
    /\ i_list' = Append(i_list, RowIndex(i, Len(loc'.nsd)))
    /\ i' = i + 1
    /\ UNCHANGED <<pc, error, geom, tie, run, prev, mls, distnod, knn, sdi_list, matrices>>

\* a0[i] = 0: 0 / 0 makes Dn, hence A, NaN, and pinv (line 298) raises
\* LinAlgError ("SVD did not converge") before anything is appended.
PointFail ==
    /\ pc = "loop"
    /\ i < N
    /\ a0[i + 1] = Zero
    /\ loc' = [NoLocals EXCEPT !.nsd = Neighbours(distnod, indices[i + 1]),
                               !.p_ = Basis(Neighbours(distnod, indices[i + 1]))]
    /\ Raise("LinAlgError")
    /\ UNCHANGED <<geom, tie, run, prev, mls, distnod, knn, i, lists, matrices>>

----------------------------------------------------------------------------
(* Lines 325-343: flattening, assembly, saving.                            *)

RECURSIVE Chain(_)
\* list(itertools.chain(*rows))
Chain(rows) == IF rows = <<>> THEN <<>> ELSE Head(rows) \o Chain(Tail(rows))

Flatten ==
    /\ pc = "loop"
    /\ i = N
    /\ sdi_list' = Chain(indices)
    /\ sf_list' = Chain(sf_list)
    /\ sfx_list' = Chain(sfx_list)
    /\ sfy_list' = Chain(sfy_list)
    /\ sfxx_list' = Chain(sfxx_list)
    /\ sfyy_list' = Chain(sfyy_list)
    /\ i_list' = Chain(i_list)
    /\ pc' = "assemble"
    /\ UNCHANGED <<error, geom, tie, run, prev, mls, distnod, knn, i, loc, cond_number, matrices>>

RECURSIVE SumAt(_, _, _, _, _)
\* The sum of data[t], t in 1..n, over the triplets at position rc, added in
\* the order of the lists.
SumAt(data, rows, cols, rc, n) ==
    CHOOSE v \in {IF hits = {} THEN Zero
                  ELSE CHOOSE q \in {QAdd(SumAt(data, rows, cols, rc, last - 1), data[last]) :
                                       last \in {t \in hits : \A u \in hits : u <= t}} : TRUE :
                    hits \in {{t \in 1..n : <<rows[t], cols[t]>> = rc}}} : TRUE

\* Rows and columns exchanged: csc_matrix((data, (cols, rows))).
csc_matrixTransposed(data, rows, cols, n) ==
    [shape |-> <<n, n>>,
     data |-> [rc \in {<<cols[t], rows[t]>> : t \in 1..Len(data)} |->
                  SumAt(data, cols, rows, rc, Len(data))]]

\* Explicit zeros dropped, as after eliminate_zeros().
csc_matrixNoZeros(data, rows, cols, n) ==
    [shape |-> <<n, n>>,
     data |-> [rc \in {<<rows[t], cols[t]>> : t \in {u \in 1..Len(data) :
                                 SumAt(data, rows, cols, <<rows[u], cols[u]>>, Len(data)) # Zero}} |->
                  SumAt(data, rows, cols, rc, Len(data))]]

\* The row taken from the position of the triplet (K triplets per point, in
\* the order of the points) instead of the row list.
csc_matrixByPosition(data, rows, cols, n) ==
    [shape |-> <<n, n>>,
     data |-> [rc \in {<<(t - 1) \div K, cols[t]>> : t \in 1..Len(data)} |->
                  SumAt(data, [t \in 1..Len(data) |-> (t - 1) \div K], cols, rc, Len(data))]]

\* sp.sparse.csc_matrix((data, (rows, cols)), shape=(n, n)): one stored entry
\* per position named, duplicates summed, explicit zeros kept.
csc_matrix(data, rows, cols, n) ==
    [shape |-> <<n, n>>,
     data |-> [rc \in {<<rows[t], cols[t]>> : t \in 1..Len(data)} |->
                  SumAt(data, rows, cols, rc, Len(data))]]

Assemble ==
    /\ pc = "assemble"
    /\ sf' = csc_matrix(sf_list, i_list, sdi_list, N)
    /\ sfx' = csc_matrix(sfx_list, i_list, sdi_list, N)
    /\ sfxx' = csc_matrix(sfxx_list, i_list, sdi_list, N)
    /\ sfy' = csc_matrix(sfy_list, i_list, sdi_list, N)
    /\ sfyy' = csc_matrix(sfyy_list, i_list, sdi_list, N)
    /\ pc' = "save"
    /\ UNCHANGED <<error, geom, tie, run, prev, mls, distnod, knn, i, loc, lists>>

\* sfyy=sfxx: the last keyword given the wrong matrix.
NpzContentXXTwice == [sf |-> sf, sfx |-> sfx, sfy |-> sfy, sfxx |-> sfxx, sfyy |-> sfxx]

\* np.savez('MLS/shape_functions.npz', sf=sf, sfx=sfx, sfy=sfy, sfxx=sfxx, sfyy=sfyy)
NpzContent == [sf |-> sf, sfx |-> sfx, sfy |-> sfy, sfxx |-> sfxx, sfyy |-> sfyy]

Save ==
    /\ pc = "save"
    /\ mls' = [mls EXCEPT !.files =
                  {f \in mls.files : f.name # "shape_functions.npz"}
                  \cup {[name |-> "shape_functions.npz", content |-> NpzContent]}]
    /\ pc' = "done"
    /\ UNCHANGED <<error, geom, tie, run, prev, distnod, knn, i, loc, lists, matrices>>

\* The cell executed a second time in the same kernel, on the same geom.dat:
\* the lists, the matrices, distnod and the neighbour arrays still hold what
\* the first execution left until the cell assigns them again.  i and the
\* arrays of the loop body are bound by the for statement and the body
\* before they are read; i counts the points of the current execution.
Rerun ==
    /\ pc = "done"
    /\ run = 1
    /\ run' = 2
    /\ prev' = Outputs
    /\ pc' = "start"
    /\ i' = 0
    /\ loc' = NoLocals
    /\ UNCHANGED <<error, geom, tie, mls, distnod, knn, lists, matrices>>

Next ==
    \/ Setup
    \/ LoadGeom
    \/ Kneighbors
    \/ KneighborsFail
    \/ PointStep
    \/ PointFail
    \/ Flatten
    \/ Assemble
    \/ Save
    \/ Rerun

Spec == Init /\ [][Next]_vars

----------------------------------------------------------------------------
(* Properties.                                                             *)

\* The inverse computed for a point satisfies the four Penrose conditions.
PinvIsMoorePenrose ==
    loc.finite =>
        /\ MatMul(MatMul(loc.A, loc.IA), loc.A) = loc.A
        /\ MatMul(MatMul(loc.IA, loc.A), loc.IA) = loc.IA
        /\ Transpose(MatMul(loc.A, loc.IA)) = MatMul(loc.A, loc.IA)
        /\ Transpose(MatMul(loc.IA, loc.A)) = MatMul(loc.IA, loc.A)

Operators == {sf, sfx, sfy, sfxx, sfyy}

\* The five rows the loop body computes for point m (0-based), lines 310-319.
RowsAt(m) ==
    CHOOSE r \in {[sf |-> ShapeRow(l),
                   sfx |-> ShapeRowD1(pdx_, l.IA, l.IAx, l.B, l.Bx),
                   sfy |-> ShapeRowD1(pdy_, l.IA, l.IAy, l.B, l.By),
                   sfxx |-> ShapeRowD2(pdxx_, pdx_, l.IA, l.IAx, l.IAxx, l.B, l.Bx, l.Bxx),
                   sfyy |-> ShapeRowD2(pdyy_, pdy_, l.IA, l.IAy, l.IAyy, l.B, l.By, l.Byy)] :
                    l \in {PointLocals(distnod, indices[m + 1], distances[m + 1],
                                       a0[m + 1])}} : TRUE

\* C1: after the run every operator is N x N with indices in 0..N-1, the
\* flattened row, column and value lists are aligned triplet by triplet, and
\* each operator holds at (i, indices[i][j]) the j-th coefficient of the row
\* computed for point i.
C1_TripletsAligned ==
    pc = "done" =>
        /\ \A M \in Operators :
              /\ M.shape = <<N, N>>
              /\ \A rc \in DOMAIN M.data : rc[1] \in 0..(N - 1) /\ rc[2] \in 0..(N - 1)
        /\ Len(i_list) = N * K /\ Len(sdi_list) = N * K
        /\ \A l \in {sf_list, sfx_list, sfy_list, sfxx_list, sfyy_list} : Len(l) = N * K
        /\ \A m \in 0..(N - 1) : \A r \in {RowsAt(m)} : \A j \in 1..K :
              LET t == m * K + j
                  at == <<m, indices[m + 1][j]>>
              IN  /\ i_list[t] = m /\ sdi_list[t] = indices[m + 1][j]
                  /\ sf_list[t] = r.sf[j] /\ sf.data[at] = r.sf[j]
                  /\ sfx_list[t] = r.sfx[j] /\ sfx.data[at] = r.sfx[j]
                  /\ sfy_list[t] = r.sfy[j] /\ sfy.data[at] = r.sfy[j]
                  /\ sfxx_list[t] = r.sfxx[j] /\ sfxx.data[at] = r.sfxx[j]
                  /\ sfyy_list[t] = r.sfyy[j] /\ sfyy.data[at] = r.sfyy[j]

\* A finished run whose x-derivative operator is not symmetric in (row, column).
C1_Witness ==
    /\ pc = "done"
    /\ \E m \in 0..(N - 1) : \E j \in 1..K :
          /\ indices[m + 1][j] # m
          /\ sfx.data[<<m, indices[m + 1][j]>>] # Zero
          /\ <<indices[m + 1][j], m>> \notin DOMAIN sfx.data

\* The stored entries of row m of a csc matrix.
StoredInRow(M, m) == {rc \in DOMAIN M.data : rc[1] = m}

\* C2: every row of every operator has exactly K stored entries when the K
\* neighbour indices of the point are distinct; indices that repeat share one
\* entry, so the row has at most K, and an entry holds the sum of its triplets.
C2_RowEntries ==
    pc \in {"save", "done"} =>
        \A m \in 0..(N - 1) :
            LET cols == {indices[m + 1][j] : j \in 1..K}
            IN  /\ Cardinality(cols) <= K
                /\ \A M \in Operators :
                      /\ Cardinality(StoredInRow(M, m)) = Cardinality(cols)
                      /\ Cardinality(cols) = K => Cardinality(StoredInRow(M, m)) = K
                /\ \A c \in cols :
                      /\ sf.data[<<m, c>>] = SumAt(sf_list, i_list, sdi_list, <<m, c>>, N * K)
                      /\ sfx.data[<<m, c>>] = SumAt(sfx_list, i_list, sdi_list, <<m, c>>, N * K)
                      /\ sfy.data[<<m, c>>] = SumAt(sfy_list, i_list, sdi_list, <<m, c>>, N * K)
                      /\ sfxx.data[<<m, c>>] = SumAt(sfxx_list, i_list, sdi_list, <<m, c>>, N * K)
                      /\ sfyy.data[<<m, c>>] = SumAt(sfyy_list, i_list, sdi_list, <<m, c>>, N * K)

\* An assembled row with K stored entries, one of them an explicit zero.
C2_Witness ==
    /\ pc = "done"
    /\ \E m \in 0..(N - 1) :
          /\ Cardinality(StoredInRow(sf, m)) = K
          /\ \E rc \in StoredInRow(sf, m) : sf.data[rc] = Zero

\* C3: the entries of every shape-function row computed so far sum to 1.
C3_PartitionOfUnity ==
    pc = "loop" => \A m \in 1..Len(sf_list) : QSum(sf_list[m]) = One

\* A row computed from a singular moment matrix, with a negative coefficient.
C3_Witness ==
    /\ pc = "loop"
    /\ \E m \in 1..Len(sf_list) :
          /\ cond_number[m] = "inf"
          /\ QSum(sf_list[m]) = One
          /\ \E j \in 1..K : sf_list[m][j][1] < 0

\* Polynomials of degree <= 2 in the global (x, y), by their coefficients of
\* 1, x, y, x^2, xy, y^2: the six monomials and 3 + 2x - y + x^2.
Polys ==
    {<<1, 0, 0, 0, 0, 0>>, <<0, 1, 0, 0, 0, 0>>, <<0, 0, 1, 0, 0, 0>>,
     <<0, 0, 0, 1, 0, 0>>, <<0, 0, 0, 0, 1, 0>>, <<0, 0, 0, 0, 0, 1>>,
     <<3, 2, -1, 1, 0, 0>>}

PolyAt(f, q) ==
    f[1] + f[2] * q[1] + f[3] * q[2] + f[4] * q[1] * q[1] + f[5] * q[1] * q[2]
         + f[6] * q[2] * q[2]
PolyDx(f, q) == f[2] + 2 * f[4] * q[1] + f[5] * q[2]
PolyDy(f, q) == f[3] + f[5] * q[1] + 2 * f[6] * q[2]
PolyDxx(f, q) == 2 * f[4]
PolyDyy(f, q) == 2 * f[6]

\* The dot product of a row computed for point m (1-based) with f's values at
\* the point's neighbours.
RowDot(row, m, f) ==
    QSum([j \in 1..K |-> QMul(row[j], QInt(PolyAt(f, distnod[indices[m][j] + 1])))])

ReproducesValue(m, f) == RowDot(sf_list[m], m, f) = QInt(PolyAt(f, distnod[m]))

ReproducesDerivatives(m, f) ==
    /\ RowDot(sfx_list[m], m, f) = QInt(PolyDx(f, distnod[m]))
    /\ RowDot(sfy_list[m], m, f) = QInt(PolyDy(f, distnod[m]))
    /\ RowDot(sfxx_list[m], m, f) = QInt(PolyDxx(f, distnod[m]))
    /\ RowDot(sfyy_list[m], m, f) = QInt(PolyDyy(f, distnod[m]))

\* C4 (as amended): for every polynomial f of degree <= 2 and every processed
\* point, the phi row reproduces f at the point; the phi_x, phi_y, phi_xx and
\* phi_yy rows reproduce f's derivatives at the point when the moment matrix
\* of the point is nonsingular (finite condition number).
C4_Reproduction ==
    pc = "loop" =>
        \A m \in 1..Len(sf_list) : \A f \in Polys :
            /\ ReproducesValue(m, f)
            /\ cond_number[m] = "finite" => ReproducesDerivatives(m, f)

\* A point with a nonsingular moment matrix whose rows differentiate x^2.
C4_Witness ==
    /\ pc = "loop"
    /\ \E m \in 1..Len(sf_list) :
          /\ cond_number[m] = "finite"
          /\ ReproducesValue(m, <<3, 2, -1, 1, 0, 0>>)
          /\ RowDot(sfxx_list[m], m, <<0, 0, 0, 1, 0, 0>>) = QInt(2)
          /\ \E j \in 1..K : sfxx_list[m][j] # Zero

\* C4 as stated: value and all four derivatives are reproduced at every point.
C4_Original ==
    pc = "loop" =>
        \A m \in 1..Len(sf_list) : \A f \in Polys :
            ReproducesValue(m, f) /\ ReproducesDerivatives(m, f)

\* C5: once the kernel of a point has been evaluated, every neighbour at
\* distance 0 has Dn = 1, Dx = Dy = 0 and Dxx = Dyy = -2/a0^2 (a0 > 0).
\* loc holds the arrays of point i - 1; a0 holds squares.
C5_KernelAtZero ==
    loc.finite =>
        \A j \in 1..K :
            distances[i][j] = 0 =>
                /\ loc.Dn[j] = One
                /\ loc.Dx[j] = Zero /\ loc.Dy[j] = Zero
                /\ loc.Dxx[j] = QDiv(QInt(-2), a0[i])
                /\ loc.Dyy[j] = QDiv(QInt(-2), a0[i])

\* A kernel evaluated with a0^2 # 1 at a point that has a coincident neighbour.
C5_Witness ==
    /\ loc.finite
    /\ a0[i] # One
    /\ distances[i][1] = 0 /\ distances[i][2] = 0 /\ indices[i][2] # i - 1
    /\ loc.Dxx[2] = QDiv(QInt(-2), a0[i])

\* C6 (as amended): for the first neighbour of a point, the one at the local
\* origin, the kernel gives Dn = 1 and Dx = Dy = 0, while Dxx and Dyy are
\* negative: a0^2 * Dxx = a0^2 * Dyy = -2.
C6_KernelSelfPoint ==
    loc.finite =>
        /\ loc.Dn[1] = One /\ loc.Dx[1] = Zero /\ loc.Dy[1] = Zero
        /\ loc.Dxx[1][1] < 0 /\ QMul(a0[i], loc.Dxx[1]) = QInt(-2)
        /\ loc.Dyy[1][1] < 0 /\ QMul(a0[i], loc.Dyy[1]) = QInt(-2)

\* The kernel evaluated for a point that is its own first neighbour.
C6_Witness ==
    /\ loc.finite
    /\ indices[i][1] = i - 1 /\ distances[i][1] = 0
    /\ loc.Dn[1] = One /\ loc.Dxx[1] # Zero

\* C6 as stated: at the self point Dn = 1 and Dx = Dy = Dxx = Dyy = 0.
C6_Original ==
    loc.finite =>
        /\ loc.Dn[1] = One
        /\ loc.Dx[1] = Zero /\ loc.Dy[1] = Zero
        /\ loc.Dxx[1] = Zero /\ loc.Dyy[1] = Zero

\* C7 as stated: no per-point step aborts; every processed point has one row
\* of K values in each of the five accumulators and one condition number.
C7_NeverAborts ==
    /\ ~(pc = "error" /\ error = "LinAlgError")
    /\ pc = "loop" =>
          /\ Len(cond_number) = i
          /\ \A l \in {sf_list, sfx_list, sfy_list, sfxx_list, sfyy_list} :
                Len(l) = i /\ \A m \in 1..i : Len(l[m]) = K

\* C8: with fewer than K points the run fails in kneighbors, before the loop:
\* no iteration runs, nothing is accumulated or assembled, and no operator
\* file is written (only a file of an earlier run can be there, until the
\* directory is recreated).
C8_FailsFast ==
    Len(geom) < K =>
        /\ pc \in {"start", "load", "knn", "error"}
        /\ pc = "error" => error = "ValueError"
        /\ i = 0 /\ loc = NoLocals
        /\ cond_number = <<>> /\ i_list = <<>> /\ sdi_list = <<>>
        /\ \A l \in {sf_list, sfx_list, sfy_list, sfxx_list, sfyy_list} : l = <<>>
        /\ \A M \in Operators : M = NoMatrix
        /\ mls.files \subseteq {OldFile}
        /\ pc # "start" => mls.files = {}

\* The run stopped by kneighbors on a cloud of fewer than K points.
C8_Witness ==
    /\ pc = "error" /\ error = "ValueError"
    /\ Len(distnod) > 0 /\ Len(distnod) < K
    /\ mls.exists /\ mls.files = {}

Coincident(m) == {b \in 1..N : distnod[b] = distnod[m]}

\* The parts of C10 that do not name the point's own index.
NeighborSetSorted(m) ==
    /\ Len(indices[m]) = K /\ Len(distances[m]) = K
    /\ \A j \in 1..K :
          /\ indices[m][j] \in 0..(N - 1)
          /\ distances[m][j] = Dist2(distnod[m], distnod[indices[m][j] + 1])
    /\ \A j \in 1..(K - 1) : distances[m][j] <= distances[m][j + 1]
    /\ distances[m][1] = 0

\* C10 (as amended): for every point, NeighborSet has exactly K entries, no
\* point outside it is nearer than its last entry, its distances are
\* non-decreasing and the first is 0; the point itself is among the entries
\* whenever at most K points of the cloud lie at its position.
C10_NeighborSet ==
    indices # Unset =>
        \A m \in 1..N :
            /\ NeighborSetSorted(m)
            /\ \A b \in 1..N :
                  (\A j \in 1..K : indices[m][j] # b - 1) =>
                      Dist2(distnod[m], distnod[b]) >= distances[m][K]
            /\ Cardinality(Coincident(m)) <= K => \E j \in 1..K : indices[m][j] = m - 1

\* A point whose neighbours include itself and, before it, a coincident point.
C10_Witness ==
    /\ indices # Unset
    /\ \E m \in 1..N :
          /\ Cardinality(Coincident(m)) = 2
          /\ indices[m][1] # m - 1 /\ indices[m][2] = m - 1
          /\ distances[m][2] = 0 /\ distances[m][K] > 0

\* C10 as stated: every NeighborSet contains the point itself.
C10_Original ==
    indices # Unset =>
        \A m \in 1..N : NeighborSetSorted(m) /\ \E j \in 1..K : indices[m][j] = m - 1

\* C11: for every point the support radius is 0.3 times the distance of the
\* last entry of its NeighborSet (squared here: a0^2 = 9/100 * d_k^2); it is
\* positive whenever that distance is, and it is 0 only if all K neighbours
\* lie at the point's own position.
C11_SupportRadius ==
    a0 # Unset =>
        /\ Len(a0) = N
        /\ \A m \in 1..N :
              /\ a0[m][1] * 100 = 9 * distances[m][K] * a0[m][2]
              /\ distances[m][K] > 0 => a0[m][1] > 0
              /\ a0[m] = Zero =>
                    \A j \in 1..K : distnod[indices[m][j] + 1] = distnod[m]

\* A cloud in which one point has a positive radius and another the radius 0.
C11_Witness ==
    /\ a0 # Unset
    /\ \E m \in 1..N : a0[m] = Zero
    /\ \E m \in 1..N : a0[m][1] > 0 /\ distances[m][1] = 0 /\ distances[m][K] > 0

\* C12: a second execution on the same point cloud, with the same order
\* among equal distances, computes for every point the rows and the condition
\* number the first execution computed, and ends with the same flattened
\* lists, the same five operators and the same condition numbers.
C12_Deterministic ==
    run = 2 =>
        /\ pc = "loop" =>
              \A m \in 1..i :
                  /\ cond_number[m] = prev.cond_number[m]
                  /\ \A j \in 1..K :
                        LET t == (m - 1) * K + j
                        IN  /\ i_list[m][j] = prev.i_list[t]
                            /\ sf_list[m][j] = prev.sf_list[t]
                            /\ sfx_list[m][j] = prev.sfx_list[t]
                            /\ sfy_list[m][j] = prev.sfy_list[t]
                            /\ sfxx_list[m][j] = prev.sfxx_list[t]
                            /\ sfyy_list[m][j] = prev.sfyy_list[t]
        /\ pc = "done" => Outputs = prev

\* The end of a second execution whose results hold a singular point.
C12_Witness ==
    /\ run = 2 /\ pc = "done"
    /\ Len(prev.cond_number) = N /\ N >= K
    /\ \E m \in 1..N : cond_number[m] = "inf"
    /\ \E rc \in DOMAIN sfyy.data : sfyy.data[rc][2] > 1

\* Orders in which the N per-point results can be produced and merged: every
\* rotation of 1..N and the reverse order.
Orders ==
    {[m \in 1..N |-> ((m - 1 + s) % N) + 1] : s \in 0..(N - 1)}
        \cup {[m \in 1..N |-> N + 1 - m]}

\* A flattened list with its K-entry blocks taken in the order o.
InOrder(list, o) == Chain([m \in 1..N |-> SubSeq(list, (o[m] - 1) * K + 1, o[m] * K)])

OriginIs(o) ==
    /\ loc.nsd[1] = o
    /\ \A j \in 1..K :
          LET dx == loc.nsd[j][1] - o[1]
              dy == loc.nsd[j][2] - o[2]
          IN  /\ loc.p_[1][j] = One
              /\ loc.p_[2][j] = QInt(dx) /\ loc.p_[3][j] = QInt(dy)
              /\ loc.p_[4][j] = QInt(dx * dx) /\ loc.p_[5][j] = QInt(dx * dy)
              /\ loc.p_[6][j] = QInt(dy * dy)
              /\ loc.finite =>
                    /\ QMul(a0[i], loc.Dx[j]) = QMul(QInt(2 * dx), loc.Dn[j])
                    /\ QMul(a0[i], loc.Dy[j]) = QMul(QInt(2 * dy), loc.Dn[j])
                    /\ QMul(QMul(a0[i], a0[i]), loc.Dxx[j])
                          = QMul(QMul(QInt(-2), QSub(a0[i], QInt(2 * dx * dx))), loc.Dn[j])
                    /\ QMul(QMul(a0[i], a0[i]), loc.Dyy[j])
                          = QMul(QMul(QInt(-2), QSub(a0[i], QInt(2 * dy * dy))), loc.Dn[j])

\* C14: the local origin of the basis and of the kernel-derivative offsets of
\* a point is the point's own position, also when its first neighbour is
\* another point.  loc holds the arrays of point i - 1 once its step is
\* complete, and of point i when the step was abandoned in pinv.
C14_LocalOrigin ==
    /\ loc.finite => OriginIs(distnod[i])
    /\ (pc = "error" /\ error = "LinAlgError") => OriginIs(distnod[i + 1])

\* A processed point whose first neighbour is a coincident other point and
\* which has neighbours off the origin in x and in y.
C14_Witness ==
    /\ loc.finite
    /\ indices[i][1] # i - 1
    /\ distnod[i] # <<0, 0>>
    /\ \E j \in 1..K : loc.p_[2][j] # Zero /\ loc.Dx[j] # Zero
    /\ \E j \in 1..K : loc.p_[3][j] # Zero /\ loc.Dy[j] # Zero

\* X itself, evaluated once: comparing the value with itself makes TLC
\* compute every entry of a matrix before it is used again.
Force(X) == CHOOSE v \in {X} : v = v

\* The second derivative of p^T IA B^T by the product rule, term by term:
\* p'' IA B^T + 2 p' IA' B^T + p IA'' B^T + 2 p IA' B'^T + 2 p' IA B'^T + p IA B''^T
ProductRuleRow(pdd, pd, IA, IAd, IAdd, B, Bd, Bdd) ==
    LET t1 == Force(MatMul(Force(MatMul(pdd, IA)), Transpose(B)))
        t2 == Force(Scale(QInt(2), Force(MatMul(Force(MatMul(pd, IAd)), Transpose(B)))))
        t3 == Force(MatMul(Force(MatMul(w_, IAdd)), Transpose(B)))
        t4 == Force(Scale(QInt(2), Force(MatMul(Force(MatMul(w_, IAd)), Transpose(Bd)))))
        t5 == Force(Scale(QInt(2), Force(MatMul(Force(MatMul(pd, IA)), Transpose(Bd)))))
        t6 == Force(MatMul(Force(MatMul(w_, IA)), Transpose(Bdd)))
    IN  MatAdd(Force(MatAdd(Force(MatAdd(Force(MatAdd(Force(MatAdd(t1, t2)), t3)), t4)), t5)), t6)[1]

\* C15: the xx and yy rows appended for a point are the full product-rule
\* expansion of the second derivative of p^T IA B^T; w IAx, which the code
\* adds twice in the middle factor, is the 2 w IAx Bx^T of the product rule.
C15_ProductRule ==
    (pc = "loop" /\ loc.finite) =>
        /\ sfxx_list[i] = ProductRuleRow(pdxx_, pdx_, loc.IA, loc.IAx, loc.IAxx,
                                         loc.B, loc.Bx, loc.Bxx)
        /\ sfyy_list[i] = ProductRuleRow(pdyy_, pdy_, loc.IA, loc.IAy, loc.IAyy,
                                         loc.B, loc.By, loc.Byy)

\* A processed point for which w IAx Bx^T is not zero.
C15_Witness ==
    /\ pc = "loop" /\ loc.finite
    /\ \E j \in 1..K : MatMul(MatMul(w_, loc.IAx), Transpose(loc.Bx))[1][j] # Zero
    /\ \E j \in 1..K : sfxx_list[i][j] # Zero

\* The md x md matrix of zeros.
ZeroMatrix == [r \in 1..md |-> [c \in 1..md |-> Zero]]

\* IAd and IAdd are built from IA, Ad, Add by the two stated identities.
Propagated(IA, IAd, IAdd, Ad, Add) ==
    \A t \in {<<Force(MatMul(Force(MatMul(IA, Ad)), IA)),
                Force(MatMul(Force(MatMul(IAd, Ad)), IA)),
                Force(MatMul(Force(MatMul(IA, Add)), IA)),
                Force(MatMul(Force(MatMul(IA, Ad)), IAd))>>} :
        /\ IAd = MatNeg(t[1])
        /\ IAdd = MatSub(Force(MatSub(Force(MatNeg(t[2])), t[3])), t[4])

\* IAd and IAdd are the first and second derivatives of the inverse of A:
\* differentiating A IA = I once and twice gives
\* A IA' + A' IA = 0 and A IA'' + 2 A' IA' + A'' IA = 0.
TrueDerivatives(A, IA, IAd, IAdd, Ad, Add) ==
    /\ MatAdd(Force(MatMul(A, IAd)), Force(MatMul(Ad, IA))) = ZeroMatrix
    /\ MatAdd(Force(MatAdd(Force(MatMul(A, IAdd)),
                           Force(Scale(QInt(2), Force(MatMul(Ad, IAd)))))),
              Force(MatMul(Add, IA))) = ZeroMatrix

\* C16: at every processed point IAx = -IA Ax IA and
\* IAxx = -IAx Ax IA - IA Axx IA - IA Ax IAx, likewise in y with Ay and Ayy;
\* and where A is invertible these are the true first and second derivatives
\* of the inverse of A, so that A IAx + Ax IA = 0.
C16_InverseDerivatives ==
    (pc = "loop" /\ loc.finite) =>
        /\ Propagated(loc.IA, loc.IAx, loc.IAxx, loc.Ax, loc.Axx)
        /\ Propagated(loc.IA, loc.IAy, loc.IAyy, loc.Ay, loc.Ayy)
        /\ Rank(loc.A) = md =>
              /\ MatMul(loc.A, loc.IA) = Identity(md)
              /\ TrueDerivatives(loc.A, loc.IA, loc.IAx, loc.IAxx, loc.Ax, loc.Axx)
              /\ TrueDerivatives(loc.A, loc.IA, loc.IAy, loc.IAyy, loc.Ay, loc.Ayy)

\* A point with an invertible A whose inverse has nonzero first and second
\* derivatives in x and in y.
C16_Witness ==
    /\ pc = "loop" /\ loc.finite
    /\ Rank(loc.A) = md
    /\ loc.IAx # ZeroMatrix /\ loc.IAxx # ZeroMatrix
    /\ loc.IAy # ZeroMatrix /\ loc.IAyy # ZeroMatrix

\* M is a square matrix of n rows that equals its transpose.
SymmetricOfSize(M, n) ==
    /\ DOMAIN M = 1..n
    /\ \A r \in 1..n : DOMAIN M[r] = 1..n
    /\ \A r, c \in 1..n : M[r][c] = M[c][r]

\* C17: at every processed point A, Ax, Ay, Axx and Ayy are symmetric
\* 6 x 6 matrices.
C17_MomentsSymmetric ==
    (pc = "loop" /\ loc.finite) =>
        /\ SymmetricOfSize(loc.A, md)
        /\ SymmetricOfSize(loc.Ax, md) /\ SymmetricOfSize(loc.Axx, md)
        /\ SymmetricOfSize(loc.Ay, md) /\ SymmetricOfSize(loc.Ayy, md)

\* A point whose five moment matrices each have a nonzero entry off the
\* diagonal.
C17_Witness ==
    /\ pc = "loop" /\ loc.finite
    /\ \A M \in {loc.A, loc.Ax, loc.Axx, loc.Ay, loc.Ayy} :
           \E r, c \in 1..md : r # c /\ M[r][c] # Zero

\* C18 as stated: the loop visits the indices 0, 1, ... in ascending order,
\* each once, and whenever the run has left the loop, towards assembly or by
\* an error raised inside it, every index 0..N-1 has been processed.
C18_EveryIndexOnce ==
    /\ pc = "loop" =>
          /\ i \in 0..N
          /\ i_list = [m \in 1..i |-> RowIndex(m - 1, K)]
    /\ (pc \in {"assemble", "save", "done"} \/ (pc = "error" /\ error = "LinAlgError")) =>
          /\ i = N
          /\ Len(cond_number) = N

\* The (row, column) pairs of the flattened triplet lists, in list order.
Triplets == [t \in 1..Len(i_list) |-> <<i_list[t], sdi_list[t]>>]

\* C19: the K neighbour indices of a point are pairwise distinct, also among
\* points at one position; so no (row, column) pair occurs twice in the
\* triplet lists and every stored entry holds the value of its one triplet:
\* the summing of duplicates never happens.
C19_DistinctNeighbours ==
    /\ \A m \in 1..Len(indices) :
          \A j, l \in 1..K : j # l => indices[m][j] # indices[m][l]
    /\ pc \in {"assemble", "save", "done"} =>
          \A t, u \in 1..Len(i_list) : t # u => Triplets[t] # Triplets[u]
    /\ pc \in {"save", "done"} =>
          \A t \in 1..Len(i_list) :
              /\ sf.data[Triplets[t]] = sf_list[t]
              /\ sfx.data[Triplets[t]] = sfx_list[t]
              /\ sfy.data[Triplets[t]] = sfy_list[t]
              /\ sfxx.data[Triplets[t]] = sfxx_list[t]
              /\ sfyy.data[Triplets[t]] = sfyy_list[t]

\* A finished run on a cloud with two points at one position, both among
\* the neighbours of some point, with nonzero values in their two entries.
C19_Witness ==
    /\ pc = "done"
    /\ \E m \in 1..N : \E j, l \in 1..K :
          /\ j # l
          /\ distnod[indices[m][j] + 1] = distnod[indices[m][l] + 1]
          /\ sf.data[<<m - 1, indices[m][j]>>] # Zero
          /\ sf.data[<<m - 1, indices[m][l]>>] # Zero

\* l2 is l1 with exactly one row appended.
OneRowAppended(l1, l2) == Len(l2) = Len(l1) + 1 /\ SubSeq(l2, 1, Len(l1)) = l1

\* While the loop runs, and when an iteration has raised, each accumulator
\* holds one row of K entries per processed point and cond_number one entry.
RowsPerPoint ==
    (pc = "loop" \/ (pc = "error" /\ error = "LinAlgError")) =>
        /\ Len(cond_number) = i
        /\ Len(i_list) = i /\ \A m \in 1..i : Len(i_list[m]) = K
        /\ \A l \in {sf_list, sfx_list, sfy_list, sfxx_list, sfyy_list} :
              Len(l) = i /\ \A m \in 1..i : Len(l[m]) = K

\* After flattening every list has N * K entries and the row list is
\* non-decreasing.
FlatLists ==
    pc \in {"assemble", "save", "done"} =>
        /\ Len(i_list) = N * K /\ Len(sdi_list) = N * K
        /\ \A l \in {sf_list, sfx_list, sfy_list, sfxx_list, sfyy_list} : Len(l) = N * K
        /\ \A t \in 1..(N * K - 1) : i_list[t] <= i_list[t + 1]

\* A step of the loop that processes a point appends one row to each
\* accumulator and one entry to cond_number and keeps what they held; a step
\* that raises changes none of them.
AppendsOneRow ==
    /\ (pc = "loop" /\ pc' = "loop") =>
          /\ i' = i + 1
          /\ OneRowAppended(cond_number, cond_number')
          /\ OneRowAppended(i_list, i_list')
          /\ OneRowAppended(sf_list, sf_list') /\ OneRowAppended(sfx_list, sfx_list')
          /\ OneRowAppended(sfy_list, sfy_list') /\ OneRowAppended(sfxx_list, sfxx_list')
          /\ OneRowAppended(sfyy_list, sfyy_list')
    /\ (pc = "loop" /\ pc' = "error") => UNCHANGED <<i, lists>>

\* C20: after m points each of sf_list, sfx_list, sfy_list, sfxx_list,
\* sfyy_list and i_list holds m rows of K entries and cond_number m entries;
\* processing a point appends exactly one row to each and leaves the earlier
\* rows unchanged; after flattening the row, column and value lists all have
\* length N * K and the row list is non-decreasing.
C20_Accumulators == [](RowsPerPoint /\ FlatLists) /\ [][AppendsOneRow]_vars

\* The loop after two or more points, the last row appended with nonzero
\* values.
C20_Witness ==
    /\ pc = "loop" /\ i >= 2
    /\ Len(sf_list) = i
    /\ \E j \in 1..K : sf_list[i][j] # Zero /\ sfxx_list[i][j] # Zero

\* Once the first step of an execution has run, the directory exists and is
\* empty until the execution is done, also after an error; when it is done the
\* directory holds the one file of this execution.
NoEarlierResult ==
    /\ pc # "start" => mls.exists
    /\ pc \in {"load", "knn", "loop", "assemble", "save", "error"} => mls.files = {}
    /\ pc = "done" =>
          mls.files = {[name |-> "shape_functions.npz",
                        content |-> [sf |-> sf, sfx |-> sfx, sfy |-> sfy,
                                     sfxx |-> sfxx, sfyy |-> sfyy]]}

\* The directory changes in two steps only: the first step of an execution,
\* which leaves it empty, and the save, which runs after the last point and
\* the assembly and ends the execution.
WrittenOnce ==
    mls' # mls =>
        \/ pc = "start" /\ mls'.files = {}
        \/ /\ pc = "save" /\ pc' = "done"
           /\ i = N /\ Len(cond_number) = N
           /\ \A M \in Operators : M.shape = <<N, N>>

\* C21: the output directory is removed and recreated before any computation
\* and the operators are written exactly once, after the last point; so the
\* directory never holds a result of an earlier run once the run has taken
\* its first step, and a run that fails leaves no operator file.
C21_FreshDirectory == []NoEarlierResult /\ [][WrittenOnce]_vars

\* A second execution in its loop: the first one saved its operators, and
\* the directory is empty again.
C21_Witness ==
    /\ run = 2 /\ pc = "loop" /\ i >= 1
    /\ prev.sf # NoMatrix
    /\ mls.exists /\ mls.files = {}

\* a <= b for two rationals with positive denominators.
QLeq(a, b) == a[1] * b[2] <= b[1] * a[2]

\* (1 / 0.3) ** 2, the square of the largest ratio distance / a0.
MaxRatioSq == <<100, 9>>

\* The squared ratios distances[m][j] / a0[m] of a point with a0 > 0 are at
\* most (1 / 0.3) ** 2, with equality for the last neighbour.
RatioBounded(m) ==
    a0[m][1] > 0 =>
        /\ \A j \in 1..K : QLeq(QDiv(QInt(distances[m][j]), a0[m]), MaxRatioSq)
        /\ QDiv(QInt(distances[m][K]), a0[m]) = MaxRatioSq

\* C22: for every point with a0 > 0 every neighbour has
\* distances / a0 <= 1 / 0.3, with equality for the last one; the weights Dn
\* of a processed point lie between exp(-(1/0.3)^2), taken by the last
\* neighbour, and 1, do not increase along the neighbour order, and the
\* point itself is among the neighbours with weight 1.
C22_WeightRange ==
    /\ \A m \in 1..Len(a0) : RatioBounded(m)
    /\ loc.finite =>
          /\ a0[i][1] > 0
          /\ \A j \in 1..K :
                QLeq(ExpNeg(MaxRatioSq), loc.Dn[j]) /\ QLeq(loc.Dn[j], One)
          /\ loc.Dn[K] = ExpNeg(MaxRatioSq)
          /\ \A j \in 1..(K - 1) : QLeq(loc.Dn[j + 1], loc.Dn[j])
          /\ loc.Dn[1] = One
          /\ \E j \in 1..K : indices[i][j] = i - 1
          /\ \A j \in 1..K : indices[i][j] = i - 1 => loc.Dn[j] = One

\* A processed point with weights of three different sizes: 1 at the point
\* itself, the least at the last neighbour, and one in between.
C22_Witness ==
    /\ loc.finite
    /\ a0[i][1] > 0 /\ indices[i][1] = i - 1
    /\ \E j, l \in 1..K : j < l /\ l < K
          /\ loc.Dn[l] # loc.Dn[j] /\ loc.Dn[K] # loc.Dn[l]

====
